---- MODULE Spec2Model ----
(***************************************************************************)
(* SortedIntArray of g/container/garray (garray_sorted_int.go): a sorted   *)
(* []int behind an rwmutex.RWMutex, with a unique flag (gtype.Bool).       *)
(*                                                                         *)
(* Spec      one caller ("main") calling the methods of instance "a" one   *)
(*           after the other; every action is one whole method call, whose *)
(*           result stays in ret until the caller goes on.                 *)
(*           Instance "b" is a second array, used as the Merge argument.   *)
(* SpecRead  one caller reading from "a" with any integer arguments.       *)
(* SpecConc, SpecMerge, SpecPop                                            *)
(*           goroutines calling methods of "a" and "b" concurrently; one   *)
(*           action per lock operation and per critical section.           *)
(* SpecAlias one caller of "a", with the backing array of a.array and the  *)
(*           slice the last call returned, to follow shared storage.       *)
(***************************************************************************)
EXTENDS Integers, Sequences, FiniteSets, TLC

\* ---- bounds ----
MaxLen == 4     \* longest contents of the array under test
MaxVal == 3     \* element values are 1..MaxVal
MaxAdd == 2     \* most values passed to one Add call
MaxOther == 2   \* longest contents of the Merge argument "b"
MaxSet == 2     \* longest slice passed to SetArray
MaxCalls == 3   \* calls started by the goroutines of SpecConc, SpecMerge and SpecPop
MaxCap == 3     \* most cells in the block behind a.array in SpecAlias
MaxSteps == 2   \* calls made by the caller of SpecAlias

Inst == {"a", "b"}
Vals == 1 .. MaxVal
ProbeVals == 0 .. (MaxVal + 1)
Threads == {"t1", "t2"}
Caller == "main"
None == "none"

VARIABLES array, unique, safe, mu, ret, pc, call, local, calls, back, win, held

vars == <<array, unique, safe, mu, ret, pc, call, local, calls, back, win, held>>
data == <<array, unique, safe, mu>>
conc == <<pc, call, local, calls>>
heap == <<back, win, held>>

\* ---- sequences ----
RECURSIVE SeqsUpTo(_)
SeqsUpTo(n) == IF n = 0 THEN {<<>>} ELSE SeqsUpTo(n - 1) \cup [1 .. n -> Vals]

RECURSIVE insertSorted(_, _)
insertSorted(s, v) ==
    IF s = <<>> THEN <<v>>
    ELSE IF v < Head(s) THEN <<v>> \o s
    ELSE <<Head(s)>> \o insertSorted(Tail(s), v)

\* sort.Ints
RECURSIVE sortInts(_)
sortInts(s) == IF s = <<>> THEN <<>> ELSE insertSorted(sortInts(Tail(s)), Head(s))

\* the default compareFunc of NewSortedIntArraySize
compareFunc(v1, v2) == IF v1 < v2 THEN -1 ELSE IF v1 > v2 THEN 1 ELSE 0

\* the loop of binSearch; indices are 0-based as in the source, arr is 1-based
RECURSIVE binLoop(_, _, _, _, _, _)
binLoop(arr, value, min, max, mid, cmp) ==
    IF min <= max
    THEN LET m == (min + max) \div 2
             c == compareFunc(value, arr[m + 1])
         IN  IF c < 0 THEN binLoop(arr, value, min, m - 1, m, c)
             ELSE IF c > 0 THEN binLoop(arr, value, m + 1, max, m, c)
             ELSE <<m, c>>
    ELSE <<mid, cmp>>

binSearch(arr, value) ==
    IF Len(arr) = 0 THEN <<-1, -2>>
    ELSE binLoop(arr, value, 0, Len(arr) - 1, 0, -2)

\* Search returns the index of binSearch, whatever the comparison result
Search(arr, value) == binSearch(arr, value)[1]

Contains(arr, value) == Search(arr, value) = 0

\* the insertion index without the step past a smaller element
insertIndexNoStep(index, cmp) == index

\* Add: "if cmp > 0 { index++ }"
insertIndex(index, cmp) == IF cmp > 0 THEN index + 1 ELSE index

\* the loop body without the "a.unique.Val() && cmp == 0" skip
addOneNoSkip(arr, uniq, value) ==
    LET r == binSearch(arr, value)
        at == insertIndex(r[1], r[2])
    IN  IF r[1] < 0 THEN Append(arr, value)
        ELSE SubSeq(arr, 1, at) \o <<value>> \o SubSeq(arr, at + 1, Len(arr))

\* Add: the body of the loop for one value
addOne(arr, uniq, value) ==
    LET r == binSearch(arr, value)
        index == r[1]
        cmp == r[2]
    IN  IF uniq /\ cmp = 0 THEN arr
        ELSE IF index < 0 THEN Append(arr, value)
        ELSE LET at == insertIndex(index, cmp)
             IN  SubSeq(arr, 1, at) \o <<value>> \o SubSeq(arr, at + 1, Len(arr))

\* Add: the loop over values
RECURSIVE addAll(_, _, _)
addAll(arr, uniq, values) ==
    IF values = <<>> THEN arr
    ELSE addAll(addOne(arr, uniq, Head(values)), uniq, Tail(values))

\* Remove that cuts the array at the index and drops what follows it
removeAtCut(arr, index) ==
    IF index = 0 THEN Tail(arr) ELSE SubSeq(arr, 1, index)

\* Remove with 0 <= index < len: the three branches give the same contents
removeAt(arr, index) ==
    IF index = 0 THEN Tail(arr)
    ELSE IF index = Len(arr) - 1 THEN SubSeq(arr, 1, index)
    ELSE SubSeq(arr, 1, index) \o SubSeq(arr, index + 2, Len(arr))

\* Unique: the loop, from position i (0-based), on a non-empty array
RECURSIVE uniqueLoop(_, _)
uniqueLoop(arr, i) ==
    IF i = Len(arr) - 1 THEN arr
    ELSE IF compareFunc(arr[i + 1], arr[i + 2]) = 0
         THEN uniqueLoop(SubSeq(arr, 1, i + 1) \o SubSeq(arr, i + 3, Len(arr)), i)
         ELSE uniqueLoop(arr, i + 1)

\* Unique reads a.array[0] of an empty array: index out of range
uniquePanics(arr) == Len(arr) = 0

\* a Merge that drops the values the receiver already holds
mergeArraysNew(x, y) ==
    sortInts(x \o SelectSeq(y, LAMBDA v : \A k \in 1 .. Len(x) : x[k] # v))

\* the append of Merge without the sort.Ints that follows it
mergeArraysNoSort(x, y) == x \o y

\* Merge: append(a.array, array.array...) then sort.Ints
mergeArrays(x, y) == sortInts(x \o y)

\* Merge: "if a != array" guards the read lock on the argument
mergeLocksOther(i, o) == i # o

\* PopLefts: the size after "if size > length"
popLeftsSize(length, size) == IF size > length THEN length ELSE size

\* a PopRights that pops nothing when size exceeds the length
popRightsIndexKeep(length, size) == IF length - size < 0 THEN length ELSE length - size

\* PopRights: the index after "if index < 0"
popRightsIndex(length, size) == IF length - size < 0 THEN 0 ELSE length - size

\* the number of chunks rounded down instead of up
chunkCountFloor(length, size) == length \div size

\* Chunk: int(math.Ceil(float64(length) / float64(size))), for size >= 1
chunkCount(length, size) == (length + size - 1) \div size

\* Chunk: the loop
RECURSIVE chunkLoop(_, _, _, _, _)
chunkLoop(arr, size, i, chunks, n) ==
    IF chunks > 0
    THEN LET end == IF (i + 1) * size > Len(arr) THEN Len(arr) ELSE (i + 1) * size
         IN  chunkLoop(arr, size, i + 1, chunks - 1, Append(n, SubSeq(arr, i * size + 1, end)))
    ELSE n

\* Clone passes "!a.mu.IsSafe()" as the unsafe parameter of the constructor
cloneUnsafeArgSame(isSafe) == isSafe

cloneUnsafeArg(isSafe) == ~isSafe

\* the constructors: unsafe = true gives an array without concurrent safety
safeOf(unsafeArg) == ~unsafeArg

\* Range: the result for given bounds; nil is the empty slice. After the
\* clamping a negative end leaves end - start < 0: make (safe) and the slice
\* expression (unsafe) panic.
rangeResult(arr, start, end) ==
    LET length == Len(arr)
        lo == IF start < 0 THEN 0 ELSE start
        hi == IF end > length THEN length ELSE end
    IN  IF start > length \/ start > end THEN [exit |-> "return", val |-> <<>>]
        ELSE IF hi - lo < 0 THEN [exit |-> "panic", val |-> <<>>]
        ELSE [exit |-> "return", val |-> SubSeq(arr, lo + 1, hi)]

\* SubSlice: safe mode copies size elements from a.array[offset:], unsafe mode
\* returns a.array[offset:] whatever the size
subSlice(arr, offset, size, isSafe) ==
    LET length == Len(arr)
        n == IF offset + size > length THEN length - offset ELSE size
    IN  IF offset > length THEN [exit |-> "return", val |-> <<>>]
        ELSE IF isSafe
        THEN IF n < 0 \/ offset < 0 THEN [exit |-> "panic", val |-> <<>>]
             ELSE [exit |-> "return", val |-> SubSeq(arr, offset + 1, offset + n)]
        ELSE IF offset < 0 THEN [exit |-> "panic", val |-> <<>>]
             ELSE [exit |-> "return", val |-> SubSeq(arr, offset + 1, length)]

\* Rand: the size after "if size > len(a.array)"
randSize(arr, size) == IF size > Len(arr) THEN Len(arr) ELSE size

\* Rand: make([]int, size) panics for a negative size, and n[0] is written in
\* the first round of the loop even when size is 0
randPanics(arr, size) ==
    randSize(arr, size) < 0 \/ (randSize(arr, size) = 0 /\ Len(arr) > 0)

\* grand.Perm(len(a.array)), cut after the picks that Rand uses (1-based)
randPicks(arr, n) ==
    {p \in [1 .. n -> 1 .. Len(arr)] : \A k, l \in 1 .. n : k # l => p[k] # p[l]}

\* ---- rwmutex.RWMutex over sync.RWMutex ----
\* w: the holder of the write lock, r: read holds, q: goroutines inside Lock()
\* waiting for the readers to leave; a waiting writer blocks new readers.
FreeMu == [w |-> None, r |-> 0, q |-> {}]

canLock(i) == ~safe[i] \/ (mu[i].w = None /\ mu[i].r = 0 /\ mu[i].q = {})
canRLock(i) == ~safe[i] \/ (mu[i].w = None /\ mu[i].q = {})

\* ---- helpers of the predicates ----
Sorted(s) == \A k \in 1 .. (Len(s) - 1) : s[k] <= s[k + 1]
NoDups(s) == \A k, l \in 1 .. Len(s) : k # l => s[k] # s[l]
Elems(s) == {s[k] : k \in 1 .. Len(s)}
Count(s, v) == Cardinality({k \in 1 .. Len(s) : s[k] = v})

NoRet == [op |-> "none", inst |-> "a", arg |-> <<>>, val |-> <<>>, exit |-> "return", oldLen |-> 0]
Result(op, i, arg, val, exit) ==
    [op |-> op, inst |-> i, arg |-> arg, val |-> val, exit |-> exit, oldLen |-> Len(array[i])]

\* the storage behind a.array is followed in SpecAlias only
NoHeld == [kind |-> "none", from |-> "none", off |-> 0, len |-> 0, vals |-> <<>>]

NoHeap ==
    /\ back = <<>>
    /\ win = [off |-> 0, len |-> 0]
    /\ held = NoHeld

NoCall == [op |-> "none", inst |-> "a", arg |-> <<>>]

IdleConc ==
    /\ pc = [t \in Threads |-> "idle"]
    /\ call = [t \in Threads |-> NoCall]
    /\ local = [t \in Threads |-> <<>>]
    /\ calls = 0

\* NewSortedIntArray / NewSortedIntArrayFrom: contents sorted at construction
Init ==
    /\ \E s \in SeqsUpTo(MaxLen - 1), o \in SeqsUpTo(MaxOther) :
          array = [i \in Inst |-> IF i = "a" THEN sortInts(s) ELSE sortInts(o)]
    /\ unique = [i \in Inst |-> FALSE]
    /\ \E m \in BOOLEAN : safe = [i \in Inst |-> m]
    /\ mu = [i \in Inst |-> FreeMu]
    /\ ret = NoRet
    /\ IdleConc
    /\ NoHeap

\* the caller is between two calls
Ready == ret.op = "none"

\* the caller takes the result of a call that returned, or recovers from its
\* panic, and goes on; a call blocked on the lock never comes back
Forget ==
    /\ ret.op # "none" /\ ret.exit # "blocked"
    /\ ret' = NoRet
    /\ UNCHANGED <<data, conc, heap>>

\* ---- the methods, one action per call ----
SetArray(i, s) ==
    /\ Ready /\ canLock(i)
    /\ array' = [array EXCEPT ![i] = sortInts(s)]
    /\ ret' = Result("SetArray", i, s, <<>>, "return")
    /\ UNCHANGED <<unique, safe, mu, conc, heap>>

Add(i, values) ==
    /\ Ready
    /\ values = <<>> \/ canLock(i)
    /\ Len(array[i]) + Len(values) <= MaxLen
    /\ array' = [array EXCEPT ![i] = addAll(@, unique[i], values)]
    /\ ret' = Result("Add", i, values, <<>>, "return")
    /\ UNCHANGED <<unique, safe, mu, conc, heap>>

Remove(i, index) ==
    /\ Ready /\ canLock(i)
    /\ IF 0 <= index /\ index < Len(array[i])
       THEN /\ array' = [array EXCEPT ![i] = removeAt(@, index)]
            /\ ret' = Result("Remove", i, <<index>>, <<array[i][index + 1]>>, "return")
       ELSE /\ array' = array
            /\ ret' = Result("Remove", i, <<index>>, <<>>, "panic")
    /\ UNCHANGED <<unique, safe, mu, conc, heap>>

PopLeft(i) ==
    /\ Ready /\ canLock(i)
    /\ IF Len(array[i]) > 0
       THEN /\ array' = [array EXCEPT ![i] = Tail(@)]
            /\ ret' = Result("PopLeft", i, <<>>, <<array[i][1]>>, "return")
       ELSE /\ array' = array
            /\ ret' = Result("PopLeft", i, <<>>, <<>>, "panic")
    /\ UNCHANGED <<unique, safe, mu, conc, heap>>

PopRight(i) ==
    /\ Ready /\ canLock(i)
    /\ IF Len(array[i]) > 0
       THEN /\ array' = [array EXCEPT ![i] = SubSeq(@, 1, Len(@) - 1)]
            /\ ret' = Result("PopRight", i, <<>>, <<array[i][Len(array[i])]>>, "return")
       ELSE /\ array' = array
            /\ ret' = Result("PopRight", i, <<>>, <<>>, "panic")
    /\ UNCHANGED <<unique, safe, mu, conc, heap>>

PopLefts(i, size) ==
    /\ Ready /\ canLock(i)
    /\ LET length == Len(array[i])
           n == popLeftsSize(length, size)
       IN  IF n >= 0
           THEN /\ array' = [array EXCEPT ![i] = SubSeq(@, n + 1, length)]
                /\ ret' = Result("PopLefts", i, <<size>>, SubSeq(array[i], 1, n), "return")
           ELSE /\ array' = array
                /\ ret' = Result("PopLefts", i, <<size>>, <<>>, "panic")
    /\ UNCHANGED <<unique, safe, mu, conc, heap>>

PopRights(i, size) ==
    /\ Ready /\ canLock(i)
    /\ LET length == Len(array[i])
           index == popRightsIndex(length, size)
       IN  IF index <= length
           THEN /\ array' = [array EXCEPT ![i] = SubSeq(@, 1, index)]
                /\ ret' = Result("PopRights", i, <<size>>, SubSeq(array[i], index + 1, length), "return")
           ELSE /\ array' = array
                /\ ret' = Result("PopRights", i, <<size>>, <<>>, "panic")
    /\ UNCHANGED <<unique, safe, mu, conc, heap>>

\* Unique has no deferred Unlock: the panic on an empty array leaves the lock held
Unique(i) ==
    /\ Ready /\ canLock(i)
    /\ IF uniquePanics(array[i])
       THEN /\ array' = array
            /\ mu' = IF safe[i] THEN [mu EXCEPT ![i].w = Caller] ELSE mu
            /\ ret' = Result("Unique", i, <<>>, <<>>, "panic")
       ELSE /\ array' = [array EXCEPT ![i] = uniqueLoop(@, 0)]
            /\ mu' = mu
            /\ ret' = Result("Unique", i, <<>>, <<>>, "return")
    /\ UNCHANGED <<unique, safe, conc, heap>>

\* SetUnique writes the flag without the lock, then calls Unique when the flag turned true
SetUnique(i, u) ==
    /\ Ready
    /\ unique' = [unique EXCEPT ![i] = u]
    /\ IF u /\ unique[i] # u
       THEN IF ~canLock(i)
            THEN /\ ret' = Result("SetUnique", i, <<u>>, <<>>, "blocked")
                 /\ UNCHANGED <<array, mu, heap>>
            ELSE IF uniquePanics(array[i])
            THEN /\ array' = array
                 /\ mu' = IF safe[i] THEN [mu EXCEPT ![i].w = Caller] ELSE mu
                 /\ ret' = Result("SetUnique", i, <<u>>, <<>>, "panic")
            ELSE /\ array' = [array EXCEPT ![i] = uniqueLoop(@, 0)]
                 /\ mu' = mu
                 /\ ret' = Result("SetUnique", i, <<u>>, <<>>, "return")
       ELSE /\ ret' = Result("SetUnique", i, <<u>>, <<>>, "return")
            /\ UNCHANGED <<array, mu, heap>>
    /\ UNCHANGED <<safe, conc, heap>>

Clear(i) ==
    /\ Ready /\ canLock(i)
    /\ array' = [array EXCEPT ![i] = <<>>]
    /\ ret' = Result("Clear", i, <<>>, <<>>, "return")
    /\ UNCHANGED <<unique, safe, mu, conc, heap>>

\* Merge locks a, read-locks the argument unless it is a itself
Merge(i, o) ==
    /\ Ready /\ canLock(i)
    /\ Len(array[i]) + Len(array[o]) <= MaxLen
    /\ IF mergeLocksOther(i, o) /\ safe[o] /\ (o = i \/ ~canRLock(o))
       THEN /\ array' = array
            /\ mu' = IF safe[i] THEN [mu EXCEPT ![i].w = Caller] ELSE mu
            /\ ret' = Result("Merge", i, <<o>>, <<>>, "blocked")
       ELSE /\ array' = [array EXCEPT ![i] = mergeArrays(array[i], array[o])]
            /\ mu' = mu
            /\ ret' = Result("Merge", i, <<o>>, <<>>, "return")
    /\ UNCHANGED <<unique, safe, conc, heap>>

DoSearch(i, value) ==
    /\ Ready
    /\ Len(array[i]) = 0 \/ canRLock(i)
    /\ ret' = Result("Search", i, <<value>>, <<Search(array[i], value)>>, "return")
    /\ UNCHANGED <<data, conc, heap>>

DoContains(i, value) ==
    /\ Ready
    /\ Len(array[i]) = 0 \/ canRLock(i)
    /\ ret' = Result("Contains", i, <<value>>, <<Contains(array[i], value)>>, "return")
    /\ UNCHANGED <<data, conc, heap>>

\* Chunk returns nil before the lock for size < 1
DoChunk(i, size) ==
    /\ Ready
    /\ size < 1 \/ canRLock(i)
    /\ ret' = Result("Chunk", i, <<size>>,
                     IF size < 1 THEN <<>>
                     ELSE chunkLoop(array[i], size, 0, chunkCount(Len(array[i]), size), <<>>),
                     "return")
    /\ UNCHANGED <<data, conc, heap>>

\* Clone: the new array is the value returned
DoClone(i) ==
    /\ Ready /\ canRLock(i)
    /\ ret' = Result("Clone", i, <<>>,
                     [array |-> sortInts(array[i]), unique |-> FALSE,
                      safe |-> safeOf(cloneUnsafeArg(safe[i]))],
                     "return")
    /\ UNCHANGED <<data, conc, heap>>

\* the caller's sequence Add(v); Remove(Search(v))
AddSearchRemove(i, v) ==
    /\ Ready /\ canLock(i)
    /\ Len(array[i]) + 1 <= MaxLen
    /\ LET added == addAll(array[i], unique[i], <<v>>)
           index == Search(added, v)
       IN  IF 0 <= index /\ index < Len(added)
           THEN /\ array' = [array EXCEPT ![i] = removeAt(added, index)]
                /\ ret' = Result("AddSearchRemove", i, <<v>>, <<added[index + 1]>>, "return")
           ELSE /\ array' = [array EXCEPT ![i] = added]
                /\ ret' = Result("AddSearchRemove", i, <<v>>, <<>>, "panic")
    /\ UNCHANGED <<unique, safe, mu, conc, heap>>

Next ==
    \/ \E s \in SeqsUpTo(MaxSet) : SetArray("a", s)
    \/ \E values \in SeqsUpTo(MaxAdd) : Add("a", values)
    \/ \E index \in -1 .. MaxLen : Remove("a", index)
    \/ PopLeft("a")
    \/ PopRight("a")
    \/ \E size \in -1 .. (MaxLen + 1) : PopLefts("a", size)
    \/ \E size \in -1 .. (MaxLen + 1) : PopRights("a", size)
    \/ Unique("a")
    \/ \E u \in BOOLEAN : SetUnique("a", u)
    \/ Clear("a")
    \/ \E o \in Inst : Merge("a", o)
    \/ \E value \in ProbeVals : DoSearch("a", value)
    \/ \E value \in ProbeVals : DoContains("a", value)
    \/ \E size \in -1 .. (MaxLen + 1) : DoChunk("a", size)
    \/ DoClone("a")
    \/ \E v \in Vals : AddSearchRemove("a", v)
    \/ Forget

Spec == Init /\ [][Next]_vars

\* ---- the reading methods, one action per call ----
DoRange(i, start, end) ==
    /\ Ready /\ canRLock(i)
    /\ LET r == rangeResult(array[i], start, end)
       IN  ret' = Result("Range", i, <<start, end>>, r.val, r.exit)
    /\ UNCHANGED <<data, conc, heap>>

DoSubSlice(i, offset, size) ==
    /\ Ready /\ canRLock(i)
    /\ LET r == subSlice(array[i], offset, size, safe[i])
       IN  ret' = Result("SubSlice", i, <<offset, size>>, r.val, r.exit)
    /\ UNCHANGED <<data, conc, heap>>

DoRand(i, size) ==
    /\ Ready /\ canRLock(i)
    /\ IF randPanics(array[i], size)
       THEN ret' = Result("Rand", i, <<size>>, <<>>, "panic")
       ELSE \E p \in randPicks(array[i], randSize(array[i], size)) :
               ret' = Result("Rand", i, <<size>>,
                             [k \in 1 .. randSize(array[i], size) |-> array[i][p[k]]], "return")
    /\ UNCHANGED <<data, conc, heap>>

\* one caller reading from "a" and popping from its ends
NextRead ==
    \/ \E start \in -2 .. (MaxLen + 1), end \in -1 .. (MaxLen + 1) : DoRange("a", start, end)
    \/ \E offset \in -1 .. (MaxLen + 1), size \in -1 .. (MaxLen + 1) : DoSubSlice("a", offset, size)
    \/ \E size \in -1 .. (MaxLen + 1) : DoRand("a", size)
    \/ \E size \in -1 .. (MaxLen + 1) : PopLefts("a", size)
    \/ \E size \in -1 .. (MaxLen + 1) : PopRights("a", size)
    \/ Forget

SpecRead == Init /\ [][NextRead]_vars

\* ---- goroutines: one action per lock operation and per critical section ----
Op(t) == call[t].op
In(t) == call[t].inst
Arg(t) == call[t].arg

\* sync.RWMutex.Lock in two steps: announce (new readers are held back from
\* here on), then own the lock once the readers have left
muAnnounce(i, t) == IF safe[i] THEN [mu EXCEPT ![i].q = @ \cup {t}] ELSE mu
canOwn(i, t) == ~safe[i] \/ (mu[i].w = None /\ mu[i].r = 0)
muOwn(i, t) == IF safe[i] THEN [mu EXCEPT ![i].w = t, ![i].q = @ \ {t}] ELSE mu
muUnlock(m, i) == IF safe[i] THEN [m EXCEPT ![i].w = None] ELSE m
muRLock(m, i) == IF safe[i] THEN [m EXCEPT ![i].r = @ + 1] ELSE m
muRUnlock(m, i) == IF safe[i] THEN [m EXCEPT ![i].r = @ - 1] ELSE m

Entry(op) ==
    CASE op = "Range" -> "rlock"
      [] op = "SetUnique" -> "su_read"
      [] op = "PopRand" -> "pr_pick"
      [] OTHER -> "lock"

StartCall(t, op, i, arg) ==
    /\ pc[t] = "idle"
    /\ calls < MaxCalls
    /\ calls' = calls + 1
    /\ call' = [call EXCEPT ![t] = [op |-> op, inst |-> i, arg |-> arg]]
    /\ pc' = [pc EXCEPT ![t] = Entry(op)]
    /\ UNCHANGED <<data, ret, local, heap>>

\* a.mu.Lock() of Add, Unique and Merge
LockBegin(t) ==
    /\ pc[t] = "lock"
    /\ mu' = muAnnounce(In(t), t)
    /\ pc' = [pc EXCEPT ![t] = "lock_wait"]
    /\ UNCHANGED <<array, unique, safe, ret, call, local, calls, heap>>

LockAcquire(t) ==
    /\ pc[t] = "lock_wait"
    /\ canOwn(In(t), t)
    /\ mu' = muOwn(In(t), t)
    /\ pc' = [pc EXCEPT ![t] = IF Op(t) = "Merge" THEN "mg_rlock" ELSE "body"]
    /\ UNCHANGED <<array, unique, safe, ret, call, local, calls, heap>>

\* Add: the loop and the deferred Unlock
AddBody(t) ==
    /\ pc[t] = "body" /\ Op(t) = "Add"
    /\ array' = [array EXCEPT ![In(t)] = addAll(@, unique[In(t)], Arg(t))]
    /\ mu' = muUnlock(mu, In(t))
    /\ pc' = [pc EXCEPT ![t] = "idle"]
    /\ UNCHANGED <<unique, safe, ret, call, local, calls, heap>>

\* Unique: the loop and the Unlock that follows it; a panic skips the Unlock
UniqueBody(t) ==
    /\ pc[t] = "body" /\ Op(t) \in {"Unique", "SetUnique"}
    /\ IF uniquePanics(array[In(t)])
       THEN /\ pc' = [pc EXCEPT ![t] = "panicked"]
            /\ UNCHANGED <<array, mu, heap>>
       ELSE /\ array' = [array EXCEPT ![In(t)] = uniqueLoop(@, 0)]
            /\ mu' = muUnlock(mu, In(t))
            /\ pc' = [pc EXCEPT ![t] = "idle"]
    /\ UNCHANGED <<unique, safe, ret, call, local, calls, heap>>

\* SetUnique: oldUnique := a.unique.Val()
SetUniqueRead(t) ==
    /\ pc[t] = "su_read"
    /\ local' = [local EXCEPT ![t] = <<unique[In(t)]>>]
    /\ pc' = [pc EXCEPT ![t] = "su_set"]
    /\ UNCHANGED <<data, ret, call, calls, heap>>

\* SetUnique: a.unique.Set(unique), then Unique() when the flag turned true
SetUniqueSet(t) ==
    /\ pc[t] = "su_set"
    /\ unique' = [unique EXCEPT ![In(t)] = Arg(t)[1]]
    /\ pc' = [pc EXCEPT ![t] = IF Arg(t)[1] /\ local[t][1] # Arg(t)[1] THEN "lock" ELSE "idle"]
    /\ local' = [local EXCEPT ![t] = <<>>]
    /\ UNCHANGED <<array, safe, mu, ret, call, calls, heap>>

\* Range: the first a.mu.RLock()
RangeRLock(t) ==
    /\ pc[t] = "rlock"
    /\ canRLock(In(t))
    /\ mu' = muRLock(mu, In(t))
    /\ pc' = [pc EXCEPT ![t] = "range_check"]
    /\ UNCHANGED <<array, unique, safe, ret, call, local, calls, heap>>

\* Range: the early return (deferred RUnlock), or on to the copy
RangeCheck(t) ==
    /\ pc[t] = "range_check"
    /\ LET length == Len(array[In(t)])
           start == Arg(t)[1]
           end == Arg(t)[2]
       IN  IF start > length \/ start > end
           THEN /\ mu' = muRUnlock(mu, In(t))
                /\ pc' = [pc EXCEPT ![t] = "idle"]
           ELSE IF safe[In(t)]
           THEN /\ mu' = mu
                /\ pc' = [pc EXCEPT ![t] = "range_rlock2"]
           ELSE /\ mu' = muRUnlock(mu, In(t))
                /\ pc' = [pc EXCEPT ![t] = "idle"]
    /\ UNCHANGED <<array, unique, safe, ret, call, local, calls, heap>>

\* Range: the second a.mu.RLock(), taken while the first is held
RangeRLock2(t) ==
    /\ pc[t] = "range_rlock2"
    /\ canRLock(In(t))
    /\ mu' = muRLock(mu, In(t))
    /\ pc' = [pc EXCEPT ![t] = "range_copy"]
    /\ UNCHANGED <<array, unique, safe, ret, call, local, calls, heap>>

\* Range: the copy and the two deferred RUnlocks
RangeCopy(t) ==
    /\ pc[t] = "range_copy"
    /\ mu' = muRUnlock(muRUnlock(mu, In(t)), In(t))
    /\ pc' = [pc EXCEPT ![t] = "idle"]
    /\ UNCHANGED <<array, unique, safe, ret, call, local, calls, heap>>

\* Merge: array.mu.RLock() unless the argument is a itself
MergeRLock(t) ==
    /\ pc[t] = "mg_rlock"
    /\ LET o == Arg(t)[1]
       IN  IF mergeLocksOther(In(t), o)
           THEN /\ canRLock(o)
                /\ mu' = muRLock(mu, o)
           ELSE mu' = mu
    /\ pc' = [pc EXCEPT ![t] = "mg_body"]
    /\ UNCHANGED <<array, unique, safe, ret, call, local, calls, heap>>

\* Merge: append, sort, and the deferred RUnlock and Unlock
MergeBody(t) ==
    /\ pc[t] = "mg_body"
    /\ LET o == Arg(t)[1]
       IN  /\ array' = [array EXCEPT ![In(t)] = mergeArrays(array[In(t)], array[o])]
           /\ mu' = muUnlock(IF mergeLocksOther(In(t), o) THEN muRUnlock(mu, o) ELSE mu, In(t))
    /\ pc' = [pc EXCEPT ![t] = "idle"]
    /\ UNCHANGED <<unique, safe, ret, call, local, calls, heap>>

\* safe-mode instances with one element each, shared by the goroutines
InitConc ==
    /\ array \in [Inst -> [1 .. 1 -> Vals]]
    /\ \E u \in BOOLEAN : unique = [i \in Inst |-> IF i = "a" THEN u ELSE FALSE]
    /\ safe = [i \in Inst |-> TRUE]
    /\ mu = [i \in Inst |-> FreeMu]
    /\ ret = NoRet
    /\ IdleConc
    /\ NoHeap

\* goroutines calling Add, Range, SetUnique and Unique on "a"
NextConc ==
    \E t \in Threads :
        \/ \E v \in Vals : StartCall(t, "Add", "a", <<v>>)
        \/ \E start \in 0 .. 1, end \in 0 .. 1 : StartCall(t, "Range", "a", <<start, end>>)
        \/ \E u \in BOOLEAN : StartCall(t, "SetUnique", "a", <<u>>)
        \/ StartCall(t, "Unique", "a", <<>>)
        \/ LockBegin(t)
        \/ LockAcquire(t)
        \/ AddBody(t)
        \/ UniqueBody(t)
        \/ SetUniqueRead(t)
        \/ SetUniqueSet(t)
        \/ RangeRLock(t)
        \/ RangeCheck(t)
        \/ RangeRLock2(t)
        \/ RangeCopy(t)

SpecConc == InitConc /\ [][NextConc]_vars

\* goroutines calling Merge on "a" and "b", each with either as the argument
NextMerge ==
    \E t \in Threads :
        \/ \E i \in Inst, o \in Inst : StartCall(t, "Merge", i, <<o>>)
        \/ LockBegin(t)
        \/ LockAcquire(t)
        \/ MergeRLock(t)
        \/ MergeBody(t)

SpecMerge == InitConc /\ [][NextMerge]_vars

\* PopRand: grand.Intn(len(a.array)), evaluated before Remove takes the lock
PopRandPick(t) ==
    /\ pc[t] = "pr_pick"
    /\ \E index \in (IF Len(array[In(t)]) = 0 THEN {0} ELSE 0 .. (Len(array[In(t)]) - 1)) :
          local' = [local EXCEPT ![t] = <<index>>]
    /\ pc' = [pc EXCEPT ![t] = "lock"]
    /\ UNCHANGED <<data, ret, call, calls, heap>>

\* Remove, called directly or by PopRand: the body and the deferred Unlock,
\* which also runs when the index is out of range
RemoveBody(t) ==
    /\ pc[t] = "body" /\ Op(t) \in {"Remove", "PopRand"}
    /\ LET index == IF Op(t) = "Remove" THEN Arg(t)[1] ELSE local[t][1]
       IN  IF 0 <= index /\ index < Len(array[In(t)])
           THEN /\ array' = [array EXCEPT ![In(t)] = removeAt(@, index)]
                /\ pc' = [pc EXCEPT ![t] = "idle"]
           ELSE /\ array' = array
                /\ pc' = [pc EXCEPT ![t] = "panicked"]
    /\ mu' = muUnlock(mu, In(t))
    /\ local' = [local EXCEPT ![t] = <<>>]
    /\ UNCHANGED <<unique, safe, ret, call, calls, heap>>

\* PopLeft and PopRight: the body and the deferred Unlock
PopEndBody(t) ==
    /\ pc[t] = "body" /\ Op(t) \in {"PopLeft", "PopRight"}
    /\ IF Len(array[In(t)]) > 0
       THEN /\ array' = [array EXCEPT ![In(t)] =
                            IF Op(t) = "PopLeft" THEN Tail(@) ELSE SubSeq(@, 1, Len(@) - 1)]
            /\ pc' = [pc EXCEPT ![t] = "idle"]
       ELSE /\ array' = array
            /\ pc' = [pc EXCEPT ![t] = "panicked"]
    /\ mu' = muUnlock(mu, In(t))
    /\ UNCHANGED <<unique, safe, ret, call, local, calls, heap>>

\* a safe-mode array that holds one element for every call to come
InitPop ==
    /\ \E s \in [1 .. MaxCalls -> Vals] :
          array = [i \in Inst |-> IF i = "a" THEN sortInts(s) ELSE <<>>]
    /\ unique = [i \in Inst |-> FALSE]
    /\ safe = [i \in Inst |-> TRUE]
    /\ mu = [i \in Inst |-> FreeMu]
    /\ ret = NoRet
    /\ IdleConc
    /\ NoHeap

\* goroutines removing one element per call from "a"
NextPop ==
    \E t \in Threads :
        \/ StartCall(t, "PopRand", "a", <<>>)
        \/ StartCall(t, "PopLeft", "a", <<>>)
        \/ StartCall(t, "PopRight", "a", <<>>)
        \/ StartCall(t, "Remove", "a", <<0>>)
        \/ PopRandPick(t)
        \/ LockBegin(t)
        \/ LockAcquire(t)
        \/ RemoveBody(t)
        \/ PopEndBody(t)

SpecPop == InitPop /\ [][NextPop]_vars

\* a goroutine inside a call that cannot take its next step
Waiting(t) ==
    \/ pc[t] = "lock_wait" /\ ~canOwn(In(t), t)
    \/ pc[t] \in {"rlock", "range_rlock2"} /\ ~canRLock(In(t))
    \/ pc[t] = "mg_rlock" /\ mergeLocksOther(In(t), Arg(t)[1]) /\ ~canRLock(Arg(t)[1])
InCall(t) == pc[t] \notin {"idle", "panicked"}
AllReturned == \A t \in Threads : pc[t] = "idle"

\* ---- the storage behind a.array (SpecAlias) ----
\* back is the block of cells a.array points into, win the part of it that
\* a.array covers: a.array = back[win.off : win.off + win.len], and its capacity
\* ends where the block ends. held is the slice the last call handed to the
\* caller and still holds: "shared" when it points into back, "private" when its cells are its
\* own.
zeros(n) == [k \in 1 .. n |-> 0]

\* the cells of b with xs written from cell pos (counted from 0) on
writeAt(b, pos, xs) ==
    [k \in 1 .. Len(b) |-> IF k > pos /\ k <= pos + Len(xs) THEN xs[k - pos] ELSE b[k]]

window(b, w) == SubSeq(b, w.off + 1, w.off + w.len)
capOf(b, w) == Len(b) - w.off

\* Go's append(s, xs...): in place while the capacity lasts, else into a new
\* block of newcap cells
goAppend(b, w, xs, newcap) ==
    IF Len(xs) = 0 THEN [back |-> b, win |-> w, moved |-> FALSE]
    ELSE IF w.len + Len(xs) <= capOf(b, w)
    THEN [back |-> writeAt(b, w.off + w.len, xs),
          win |-> [w EXCEPT !.len = @ + Len(xs)], moved |-> FALSE]
    ELSE [back |-> window(b, w) \o xs \o zeros(newcap - w.len - Len(xs)),
          win |-> [off |-> 0, len |-> w.len + Len(xs)], moved |-> TRUE]

\* the body of Add's loop for one value; old is the block a.array pointed into
\* before, as the call leaves it
addCells(b, w, uniq, value, newcap) ==
    LET r == binSearch(window(b, w), value)
    IN  IF uniq /\ r[2] = 0 THEN [back |-> b, win |-> w, moved |-> FALSE, old |-> b]
        ELSE IF r[1] < 0
        THEN LET s == goAppend(b, w, <<value>>, newcap)
             IN  [back |-> s.back, win |-> s.win, moved |-> s.moved, old |-> b]
        ELSE LET at == insertIndex(r[1], r[2])
                 rear == SubSeq(window(b, w), at + 1, w.len)
                 s1 == goAppend(b, [w EXCEPT !.len = at], <<value>>, newcap)
                 s2 == goAppend(s1.back, s1.win, rear, newcap)
             IN  [back |-> s2.back, win |-> s2.win, moved |-> s1.moved \/ s2.moved,
                  old |-> IF s1.moved THEN b ELSE s1.back]

\* Remove's three branches on the cells
removeCells(b, w, index) ==
    IF index = 0 THEN [back |-> b, win |-> [off |-> w.off + 1, len |-> w.len - 1]]
    ELSE IF index = w.len - 1 THEN [back |-> b, win |-> [w EXCEPT !.len = index]]
    ELSE [back |-> writeAt(b, w.off + index, SubSeq(window(b, w), index + 2, w.len)),
          win |-> [w EXCEPT !.len = @ - 1]]

\* Unique's loop on the cells: each removal shifts the rest one cell left
RECURSIVE uniqueCells(_, _, _)
uniqueCells(b, w, i) ==
    IF i = w.len - 1 THEN [back |-> b, win |-> w]
    ELSE IF compareFunc(b[w.off + i + 1], b[w.off + i + 2]) = 0
         THEN uniqueCells(writeAt(b, w.off + i + 1, SubSeq(window(b, w), i + 3, w.len)),
                          [w EXCEPT !.len = @ - 1], i)
         ELSE uniqueCells(b, w, i + 1)

\* a read that never copies
readCopiesNever(isSafe) == FALSE
\* Range, Slice and SubSlice copy when the array is in safe mode
readCopies(isSafe) == isSafe

Shared(from, off, len) ==
    [kind |-> "shared", from |-> from, off |-> off, len |-> len, vals |-> <<>>]
Private(from, xs) ==
    [kind |-> "private", from |-> from, off |-> 0, len |-> Len(xs), vals |-> xs]

\* what the caller reads in the slice it holds
HeldVals ==
    IF held.kind = "shared" THEN SubSeq(back, held.off + 1, held.off + held.len)
    ELSE held.vals

\* the slice the caller holds once a.array has left the block old
heldAfter(old, moved) ==
    IF moved /\ held.kind = "shared"
    THEN [held EXCEPT !.kind = "private", !.off = 0,
                      !.vals = SubSeq(old, held.off + 1, held.off + held.len)]
    ELSE held

InitAlias ==
    /\ \E s \in SeqsUpTo(MaxCap), extra \in 0 .. 1 :
          /\ Len(s) + extra <= MaxCap
          /\ array = [i \in Inst |-> IF i = "a" THEN sortInts(s) ELSE <<>>]
          /\ back = sortInts(s) \o zeros(extra)
          /\ win = [off |-> 0, len |-> Len(s)]
    /\ held = NoHeld
    /\ unique = [i \in Inst |-> FALSE]
    /\ \E m \in BOOLEAN : safe = [i \in Inst |-> m]
    /\ mu = [i \in Inst |-> FreeMu]
    /\ ret = NoRet
    /\ IdleConc

\* the caller of SpecAlias is between two calls and makes MaxSteps calls at most
CanCall == Ready /\ calls < MaxSteps

\* the steps of SpecAlias keep array["a"] equal to the cells a.array covers
Cells(b, w, h, op, exit) ==
    /\ back' = b
    /\ win' = w
    /\ held' = h
    /\ array' = [array EXCEPT !["a"] = window(b, w)]
    /\ ret' = Result(op, "a", <<>>, <<>>, exit)
    /\ calls' = calls + 1
    /\ UNCHANGED <<unique, safe, mu, pc, call, local>>

AddCells(value, newcap) ==
    /\ CanCall /\ canLock("a")
    /\ win.len < MaxCap
    /\ LET s == addCells(back, win, unique["a"], value, newcap)
       IN  /\ IF s.moved THEN newcap >= win.len + 1 ELSE newcap = MaxCap
           /\ Cells(s.back, s.win, heldAfter(s.old, s.moved), "Add", "return")

RemoveCells(index) ==
    /\ CanCall /\ canLock("a")
    /\ IF index >= win.len
       THEN Cells(back, win, held, "Remove", "panic")
       ELSE LET s == removeCells(back, win, index)
            IN  Cells(s.back, s.win, held, "Remove", "return")

PopLeftCells ==
    /\ CanCall /\ canLock("a")
    /\ IF win.len = 0
       THEN Cells(back, win, held, "PopLeft", "panic")
       ELSE Cells(back, [off |-> win.off + 1, len |-> win.len - 1], held, "PopLeft", "return")

PopRightCells ==
    /\ CanCall /\ canLock("a")
    /\ IF win.len = 0
       THEN Cells(back, win, held, "PopRight", "panic")
       ELSE Cells(back, [win EXCEPT !.len = @ - 1], held, "PopRight", "return")

\* value := a.array[0 : size]; a.array = a.array[size : ]; the caller takes the
\* result or goes on holding the slice it has
PopLeftsCells(size, take) ==
    /\ CanCall /\ canLock("a")
    /\ LET n == popLeftsSize(win.len, size)
       IN  Cells(back, [off |-> win.off + n, len |-> win.len - n],
                 IF take THEN Shared("PopLefts", win.off, n) ELSE held,
                 "PopLefts", "return")

\* value := a.array[index :]; a.array = a.array[ : index]
PopRightsCells(size, take) ==
    /\ CanCall /\ canLock("a")
    /\ LET index == popRightsIndex(win.len, size)
       IN  Cells(back, [win EXCEPT !.len = index],
                 IF take THEN Shared("PopRights", win.off + index, win.len - index) ELSE held,
                 "PopRights", "return")

UniqueCells ==
    /\ CanCall /\ canLock("a")
    /\ IF uniquePanics(window(back, win))
       THEN Cells(back, win, held, "Unique", "panic")
       ELSE LET s == uniqueCells(back, win, 0)
            IN  Cells(s.back, s.win, held, "Unique", "return")

\* sort.Ints(a.array) sorts the cells in place
SortCells ==
    /\ CanCall /\ canLock("a")
    /\ Cells(writeAt(back, win.off, sortInts(window(back, win))), win, held, "Sort", "return")

\* a.array = append(a.array, array.array...); sort.Ints(a.array)
MergeCells(o, newcap) ==
    /\ CanCall /\ canLock("a")
    /\ win.len + Len(array[o]) <= MaxCap
    /\ LET s == goAppend(back, win, array[o], newcap)
       IN  /\ IF s.moved THEN newcap >= s.win.len ELSE newcap = MaxCap
           /\ Cells(writeAt(s.back, s.win.off, sortInts(window(s.back, s.win))), s.win,
                    heldAfter(back, s.moved), "Merge", "return")

\* a.array = make([]int, 0) when the array holds something
ClearCells ==
    /\ CanCall /\ canLock("a")
    /\ IF win.len > 0
       THEN Cells(<<>>, [off |-> 0, len |-> 0], heldAfter(back, TRUE), "Clear", "return")
       ELSE Cells(back, win, held, "Clear", "return")

RangeCells(start, end) ==
    /\ CanCall /\ canRLock("a")
    /\ LET r == rangeResult(window(back, win), start, end)
           lo == IF start < 0 THEN 0 ELSE start
       IN  IF r.exit = "panic" THEN Cells(back, win, held, "Range", "panic")
           ELSE IF start > win.len \/ start > end
           THEN Cells(back, win, Private("Range", <<>>), "Range", "return")
           ELSE IF readCopies(safe["a"])
           THEN Cells(back, win, Private("Range", r.val), "Range", "return")
           ELSE Cells(back, win, Shared("Range", win.off + lo, Len(r.val)), "Range", "return")

SubSliceCells(offset, size) ==
    /\ CanCall /\ canRLock("a")
    /\ LET r == subSlice(window(back, win), offset, size, safe["a"])
       IN  IF r.exit = "panic" THEN Cells(back, win, held, "SubSlice", "panic")
           ELSE IF offset > win.len
           THEN Cells(back, win, Private("SubSlice", <<>>), "SubSlice", "return")
           ELSE IF readCopies(safe["a"])
           THEN Cells(back, win, Private("SubSlice", r.val), "SubSlice", "return")
           ELSE Cells(back, win, Shared("SubSlice", win.off + offset, win.len - offset),
                      "SubSlice", "return")

SliceCells ==
    /\ CanCall /\ canRLock("a")
    /\ IF readCopies(safe["a"])
       THEN Cells(back, win, Private("Slice", window(back, win)), "Slice", "return")
       ELSE Cells(back, win, Shared("Slice", win.off, win.len), "Slice", "return")

\* the caller assigns v to element k of the slice it holds
WriteHeld(k, v) ==
    /\ CanCall
    /\ k < held.len
    /\ IF held.kind = "shared"
       THEN Cells(writeAt(back, held.off + k, <<v>>), win, held, "WriteHeld", "return")
       ELSE Cells(back, win, [held EXCEPT !.vals = [@ EXCEPT ![k + 1] = v]],
                  "WriteHeld", "return")

NextAlias ==
    \/ \E v \in Vals, c \in 1 .. MaxCap : AddCells(v, c)
    \/ \E k \in 0 .. (MaxCap - 1) : RemoveCells(k)
    \/ PopLeftCells
    \/ PopRightCells
    \/ \E n \in 0 .. (MaxCap - 1), take \in BOOLEAN : PopLeftsCells(n, take)
    \/ \E n \in 0 .. (MaxCap - 1), take \in BOOLEAN : PopRightsCells(n, take)
    \/ UniqueCells
    \/ \E o \in Inst, c \in 1 .. MaxCap : MergeCells(o, c)
    \/ SortCells
    \/ ClearCells
    \/ \E s \in 0 .. (MaxCap - 1), e \in 0 .. (MaxCap - 1) : RangeCells(s, e)
    \/ \E o \in 0 .. (MaxCap - 1), n \in 0 .. (MaxCap - 1) : SubSliceCells(o, n)
    \/ SliceCells
    \/ \E k \in 0 .. (MaxCap - 1) : WriteHeld(k, 0)
    \/ Forget

SpecAlias == InitAlias /\ [][NextAlias]_vars

Reads == {"Range", "SubSlice", "Slice"}
Mutators ==
    {"Add", "Remove", "PopLeft", "PopRight", "PopLefts", "PopRights", "Unique", "Merge", "Sort",
     "Clear"}

\* ======================= claims =======================

\* C1: between calls the contents of every array are in ascending order:
\* elements[i] <= elements[i+1] for every adjacent pair.
C1_Sorted == \A i \in Inst : Sorted(array[i])

C1_Witness ==
    /\ ret.op = "Add" /\ ret.exit = "return"
    /\ Len(array["a"]) = ret.oldLen + 2
    /\ ret.oldLen >= 1
    /\ ret.arg[1] > ret.arg[2]
    /\ array["a"][1] = ret.arg[2]

\* a step that is the call of Add on "a"
AddStep == ret'.op = "Add" /\ ret'.exit = "return"

\* C2: with the unique flag true and no two equal elements, Add leaves no two
\* equal elements, and the length grows only by the distinct values that were
\* not yet present (a value equal to an existing element adds nothing).
C2_UniqueAdd ==
    [][(AddStep /\ unique["a"] /\ NoDups(array["a"])) =>
          /\ NoDups(array'["a"])
          /\ Len(array'["a"]) = Len(array["a"]) + Cardinality(Elems(ret'.arg) \ Elems(array["a"]))]_vars

C2_Witness ==
    /\ ret.op = "Add" /\ unique["a"]
    /\ Len(ret.arg) = 2 /\ ret.arg[1] = ret.arg[2]
    /\ ret.oldLen >= 2
    /\ Len(array["a"]) = ret.oldLen
    /\ NoDups(array["a"])

\* C3: Search returns an index holding the value when the value is present,
\* and -1 when it is absent or the array is empty.
C3_SearchCorrect ==
    ret.op = "Search" =>
        LET v == ret.arg[1]
            idx == ret.val[1]
        IN  IF v \in Elems(array["a"])
            THEN idx \in 0 .. (Len(array["a"]) - 1) /\ array["a"][idx + 1] = v
            ELSE idx = -1

\* C4: Contains returns true exactly when an element equal to the value is
\* present, whatever its position.
C4_ContainsIffPresent ==
    ret.op = "Contains" => (ret.val[1] <=> ret.arg[1] \in Elems(array["a"]))

\* C5: whenever a goroutine waits for the lock of the instance, some goroutine
\* inside a call can take a step, so no call waits forever.
C5_NoCallWaitsForever ==
    (\E t \in Threads : Waiting(t)) => (\E u \in Threads : InCall(u) /\ ~Waiting(u))

\* C6: once a call has ended, by a return or by a panic, the lock of the
\* instance is not held any more.
C6_LockReleased ==
    (ret.op # "none" /\ ret.exit \in {"return", "panic"}) => mu[ret.inst] = FreeMu

\* C7: a.Merge(b) and b.Merge(a) never reach a state in which each waits for
\* a lock that the other holds.
C7_NoCrossWait ==
    ~ \E t, u \in Threads :
        /\ t # u
        /\ pc[t] = "mg_rlock" /\ pc[u] = "mg_rlock"
        /\ In(t) # Arg(t)[1] /\ In(u) # Arg(u)[1]
        /\ mu[Arg(t)[1]].w = u /\ mu[Arg(u)[1]].w = t

\* a step that is the call a.Merge(a)
SelfMergeStep == ret'.op = "Merge" /\ ret'.arg[1] = ret'.inst

\* C8 as stated: a.Merge(a) returns with the lock free and leaves the contents
\* and the length as they were.
C8_SelfMergeNoOp ==
    [][SelfMergeStep =>
          /\ ret'.exit = "return" /\ mu' = mu
          /\ array'["a"] = array["a"]]_vars

\* C8 amended: a.Merge(a) returns with the lock free and appends the contents
\* to themselves before sorting: the length doubles, every value occurs twice
\* as often, and the contents are sorted.
C8_SelfMergeDoubles ==
    [][SelfMergeStep =>
          /\ ret'.exit = "return" /\ mu' = mu
          /\ Len(array'["a"]) = 2 * Len(array["a"])
          /\ \A v \in Vals : Count(array'["a"], v) = 2 * Count(array["a"], v)
          /\ Sorted(array'["a"])]_vars

C8_Witness ==
    /\ ret.op = "Merge" /\ ret.arg[1] = ret.inst /\ ret.exit = "return"
    /\ ret.oldLen = 2
    /\ Len(array["a"]) = 4
    /\ array["a"][1] # array["a"][4]

\* C9: once every call of SetUnique and Add has returned and the unique flag
\* is true, the contents hold no two equal elements.
C9_UniqueWhenFlagSet ==
    (AllReturned /\ unique["a"]) => NoDups(array["a"])

\* a step that is the call of Unique, or of SetUnique(true) with the flag false
UniquePassStep ==
    \/ ret'.op = "Unique"
    \/ ret'.op = "SetUnique" /\ ret'.arg[1] /\ ~unique["a"]

\* C10: Unique and SetUnique(true) complete without failure on every sorted
\* contents, the empty one included, and leave one copy of each value in order.
C10_UniquePass ==
    [][UniquePassStep =>
          /\ ret'.exit = "return"
          /\ Sorted(array'["a"]) /\ NoDups(array'["a"])
          /\ Elems(array'["a"]) = Elems(array["a"])]_vars

\* C11: PopLefts, PopRights, SubSlice, Range and Rand return for every
\* integer argument, negative ones included; none of them fails.
C11_NeverFails ==
    ret.op \in {"PopLefts", "PopRights", "SubSlice", "Range", "Rand"} => ret.exit = "return"

\* C12: in both modes SubSlice(offset, size) with 0 <= offset <= length and
\* size >= 0 returns the elements offset .. offset+min(size, length-offset)-1,
\* and nothing for offset > length.
C12_SubSliceResult ==
    ret.op = "SubSlice" =>
        LET offset == ret.arg[1]
            size == ret.arg[2]
            length == Len(array["a"])
            n == IF size < length - offset THEN size ELSE length - offset
        IN  /\ (0 <= offset /\ offset <= length /\ size >= 0) =>
                  (ret.exit = "return" /\ ret.val = SubSeq(array["a"], offset + 1, offset + n))
            /\ offset > length => (ret.exit = "return" /\ ret.val = <<>>)

\* a step that is the sequence Add(v); Remove(Search(v))
RoundTripStep == ret'.op = "AddSearchRemove"

\* C13 as stated: in every state Add(v); Remove(Search(v)) returns v and
\* leaves the length as it was before the Add.
C13_RoundTrip ==
    [][RoundTripStep =>
          /\ ret'.exit = "return" /\ ret'.val = <<ret'.arg[1]>>
          /\ Len(array'["a"]) = Len(array["a"])]_vars

\* C13 amended: Add(v); Remove(Search(v)) returns v; the length is as before
\* the Add when the unique flag is false or v was not present, and one less
\* when the flag is true and v was present (Add then inserts nothing).
C13_RoundTripUnlessSkipped ==
    [][RoundTripStep =>
          /\ ret'.exit = "return" /\ ret'.val = <<ret'.arg[1]>>
          /\ Len(array'["a"]) =
                IF unique["a"] /\ ret'.arg[1] \in Elems(array["a"])
                THEN Len(array["a"]) - 1 ELSE Len(array["a"])]_vars

C13_Witness ==
    /\ ret.op = "AddSearchRemove" /\ ret.exit = "return"
    /\ ~unique["a"]
    /\ ret.oldLen = 3 /\ Len(array["a"]) = 3
    /\ array["a"][2] = ret.arg[1] /\ array["a"][1] # array["a"][3]

\* C15 as stated: the array returned by Clone has the mode of the source
\* flipped, and contents equal to those of the source.
C15_CloneFlipsMode ==
    ret.op = "Clone" => (ret.val.safe = ~safe["a"] /\ ret.val.array = array["a"])

\* C15 amended: the array returned by Clone has the mode of the source (the
\* unsafe parameter is the negation of IsSafe), and contents equal to those
\* of the source.
C15_CloneKeepsMode ==
    ret.op = "Clone" => (ret.val.safe = safe["a"] /\ ret.val.array = array["a"])

C15_Witness ==
    /\ ret.op = "Clone" /\ safe["a"] /\ ret.val.safe
    /\ Len(ret.val.array) = 3 /\ ret.val.array[1] # ret.val.array[3]

\* a step that is the call a.Merge(b), b another array
MergeOtherStep == ret'.op = "Merge" /\ ret'.arg[1] # ret'.inst /\ ret'.exit = "return"

\* C17: after a.Merge(b) the contents of a are the sorted multiset union of
\* the former contents of a and those of b, duplicates kept also with the
\* unique flag set, and b is unchanged.
C17_MergeUnion ==
    [][MergeOtherStep =>
          /\ Len(array'["a"]) = Len(array["a"]) + Len(array["b"])
          /\ \A v \in Vals : Count(array'["a"], v) = Count(array["a"], v) + Count(array["b"], v)
          /\ Sorted(array'["a"])
          /\ array'["b"] = array["b"]]_vars

C17_Witness ==
    /\ ret.op = "Merge" /\ ret.arg[1] = "b" /\ ret.exit = "return"
    /\ unique["a"]
    /\ Len(array["b"]) = 2 /\ Len(array["a"]) = ret.oldLen + 2 /\ ret.oldLen = 2
    /\ array["b"][1] \in {array["a"][k] : k \in {1, 2}}
    /\ array["b"][1] = array["a"][2]
    /\ array["b"][2] < array["a"][4]

\* a step that is a call of PopLefts or PopRights with n >= 0
PopsStep(op) == ret'.op = op /\ ret'.arg[1] >= 0

\* C18: PopLefts(n) returns the first min(n, length) elements and leaves the
\* rest, PopRights(n) returns the last min(n, length) elements and leaves
\* those before them; result and remaining contents give back the contents.
C18_BulkPop ==
    [][LET old == array["a"]
           n == IF ret'.arg[1] > Len(old) THEN Len(old) ELSE ret'.arg[1]
       IN  /\ PopsStep("PopLefts") =>
                 /\ ret'.exit = "return"
                 /\ ret'.val = SubSeq(old, 1, n)
                 /\ array'["a"] = SubSeq(old, n + 1, Len(old))
                 /\ ret'.val \o array'["a"] = old
           /\ PopsStep("PopRights") =>
                 /\ ret'.exit = "return"
                 /\ ret'.val = SubSeq(old, Len(old) - n + 1, Len(old))
                 /\ array'["a"] = SubSeq(old, 1, Len(old) - n)
                 /\ array'["a"] \o ret'.val = old]_vars

C18_Witness ==
    /\ ret.op = "PopRights" /\ ret.exit = "return"
    /\ ret.arg[1] = MaxLen + 1 /\ ret.oldLen = 3
    /\ Len(ret.val) = 3 /\ array["a"] = <<>>

RECURSIVE Flatten(_)
Flatten(ss) == IF ss = <<>> THEN <<>> ELSE Head(ss) \o Flatten(Tail(ss))

\* C19: for size >= 1 the chunks of Chunk(size), put together in order, are
\* the contents; every chunk but the last has size elements, the last has 1
\* to size, and an empty array gives no chunk; for size < 1 there is no
\* result; the contents stay as they are.
C19_ChunkLaw ==
    ret.op = "Chunk" =>
        LET size == ret.arg[1]
            n == Len(ret.val)
        IN  /\ ret.exit = "return"
            /\ Len(array["a"]) = ret.oldLen
            /\ size < 1 => ret.val = <<>>
            /\ size >= 1 =>
                  /\ Flatten(ret.val) = array["a"]
                  /\ \A k \in 1 .. (n - 1) : Len(ret.val[k]) = size
                  /\ n > 0 => (1 <= Len(ret.val[n]) /\ Len(ret.val[n]) <= size)
                  /\ array["a"] = <<>> => n = 0

C19_Witness ==
    /\ ret.op = "Chunk" /\ ret.arg[1] = 2
    /\ Len(array["a"]) = 3 /\ Len(ret.val) = 2
    /\ Len(ret.val[2]) = 1

\* C16: when PopRand runs beside other removals on an array that holds an
\* element for each of them, the index it removes lies in [0, length) of the
\* contents at the moment of the removal, and no removal fails.
C16_PopRandInRange ==
    \A t \in Threads :
        /\ (pc[t] = "body" /\ Op(t) = "PopRand") =>
              (0 <= local[t][1] /\ local[t][1] < Len(array["a"]))
        /\ pc[t] # "panicked"

\* C14: in safe mode the slice that Range, SubSlice or Slice returned keeps its
\* elements through every later mutating call, and a write into it leaves the
\* contents of the array alone; in unsafe mode a non-empty slice that such a
\* call returns points into the storage of the array.
C14_CopyContract ==
    [][/\ (safe["a"] /\ held.from \in Reads /\ held'.from = held.from) =>
            /\ ret'.op \in Mutators => HeldVals' = HeldVals
            /\ ret'.op = "WriteHeld" => array' = array
       /\ (~safe["a"] /\ ret'.op \in Reads /\ ret'.exit = "return" /\ held'.len > 0) =>
            held'.kind = "shared"]_vars

\* the caller holds what Slice returned in safe mode, and a later call has
\* changed the contents of the array
C14_Witness ==
    /\ safe["a"] /\ held.from = "Slice" /\ held.len > 0
    /\ ret.op \in Mutators /\ ret.oldLen # Len(array["a"])
    /\ HeldVals # array["a"]

\* C20: in safe mode the slice that PopLefts or PopRights returned keeps its
\* elements through every later Add, Remove, PopLeft and PopRight.
C20_PoppedStable ==
    [][(safe["a"] /\ held.from \in {"PopLefts", "PopRights"}
           /\ ret'.op \in {"Add", "Remove", "PopLeft", "PopRight"}) =>
          HeldVals' = HeldVals]_vars

====
